---- MODULE Spec2Model ----
(***************************************************************************)
(* AptosBB (src/src/lib.rs): the fork-and-execute harness.  The state is   *)
(* the struct AptosBB {executor, sequence_numbers, chain_id}; one action   *)
(* per public method.  The FakeExecutor is an external engine: what it     *)
(* returns (statuses, gas used, read-back results, key derivations) is     *)
(* drawn nondeterministically at the call site.                            *)
(***************************************************************************)
EXTENDS Integers, Sequences, FiniteSets, TLC

VARIABLES executor, sequence_numbers, chain_id, ledger_info, submitted, since, prev,
          discarded, created, last

vars == <<executor, sequence_numbers, chain_id, ledger_info, submitted, since, prev,
         discarded, created, last>>

\* everything but the record of the last call
rest == <<executor, sequence_numbers, chain_id, ledger_info, submitted, since, prev,
         discarded, created>>

----------------------------------------------------------------------------
(* Bounds of the model *)

\* submissions explored in one session
MaxSubmits == 3
\* balance the engine funds a created account with
InitialBalance == 1000

Addr == {"a1", "a2"}
Keys == {"k1", "k2"}
Amounts == {300}
GasUsedSet == {2}
WallClocks == {300, 900}
LedgerInfos ==
    { [chain_id |-> 1, timestamp_usecs |-> 600999999],
      [chain_id |-> 2, timestamp_usecs |-> 601000000] }

(* Program constants *)
UsecsPerSec == 1000000
TtlSecs == 300
MaxGasAmount == 2000000
GasUnitPrice == 100

----------------------------------------------------------------------------
(* Values *)

Err == "Err"
NoStore == -1
Unfollowed == "unfollowed"
EngineStatus == {"Success", "KeepError", "Discard"}
KeepMiscAborted == "KeepMisc"
TransactionStatus == EngineStatus \cup {KeepMiscAborted}

Payloads ==
    { [kind |-> "publish", to |-> "-", amount |-> 0],
      [kind |-> "entry", to |-> "-", amount |-> 0] }
    \cup { [kind |-> "transfer", to |-> b, amount |-> x] : b \in Addr, x \in Amounts }

EntryPayloads == { p \in Payloads : p.kind # "publish" }
PublishPayload == [kind |-> "publish", to |-> "-", amount |-> 0]

NoPayload == [kind |-> "-", to |-> "-", amount |-> 0]
NoTxn == [sender |-> "-", payload |-> NoPayload, sequence_number |-> -1,
          max_gas_amount |-> 0, gas_unit_price |-> 0, ttl |-> 0, chain_id |-> 0]

\* the record of the call that just returned
Last(op, addr, ret, diag, txn, gas, flag, aux) ==
    [op |-> op, addr |-> addr, ret |-> ret, diag |-> diag, txn |-> txn,
     gas_used |-> gas, flag |-> flag, aux |-> aux, val |-> 0, out |-> <<>>, arg |-> <<>>]

\* the record of a reader that returned the number val or the boolean flag
LastRead(op, addr, val, flag) ==
    [op |-> op, addr |-> addr, ret |-> "value", diag |-> "none", txn |-> NoTxn,
     gas_used |-> 0, flag |-> flag, aux |-> <<"-", "-", "-">>, val |-> val,
     out |-> <<>>, arg |-> <<>>]

NoAux == <<"-", "-", "-">>

----------------------------------------------------------------------------
(* HashMap<AccountAddress, u64> *)

Insert(m, k, v) == [a \in DOMAIN m \cup {k} |-> IF a = k THEN v ELSE m[a]]

GetOr0(m, k) == IF k \in DOMAIN m THEN m[k] ELSE 0

----------------------------------------------------------------------------
(* Reads against the executor *)

ReadAccountResourceAtAddress(ex, addr) == ex.acct[addr] = "ok"

ReadAptFungibleStoreInternal(ex, addr) == ex.store[addr]

ReadAptosBalance_NoDefault(ex, addr) == ReadAptFungibleStoreInternal(ex, addr)

ReadAptosBalance(ex, addr) ==
    IF ReadAptFungibleStoreInternal(ex, addr) # NoStore
    THEN ReadAptFungibleStoreInternal(ex, addr)
    ELSE 0

ReadStateValue(ex, key) == key \in ex.raw

VerifyAccountExists(ex, addr) == ReadAccountResourceAtAddress(ex, addr)

ReadAptFungibleStoreResource(ex, addr) == ex.store[addr]

\* Option<u64>: None is NoStore
GetAptBalance_AllowsZero(ex, addr) ==
    IF ReadAptosBalance(ex, addr) >= 0 THEN ReadAptosBalance(ex, addr) ELSE NoStore

GetAptBalance(ex, addr) ==
    IF ReadAptosBalance(ex, addr) > 0 THEN ReadAptosBalance(ex, addr) ELSE NoStore

HasAptBalance(ex, addr) == ReadAptosBalance(ex, addr) > 0

ExistsResource_EarlyReturn(ex, k1, path, k2) ==
    IF k1 # Err
    THEN ReadStateValue(ex, k1)
    ELSE IF path # Err /\ k2 # Err
         THEN ReadStateValue(ex, k2)
         ELSE FALSE

\* k1: StateKey::resource; path: AccessPath::resource_access_path;
\* k2: StateKey::decode of the encoded path
ExistsResource(ex, k1, path, k2) ==
    IF k1 # Err /\ ReadStateValue(ex, k1)
    THEN TRUE
    ELSE IF path # Err /\ k2 # Err
         THEN ReadStateValue(ex, k2)
         ELSE FALSE

----------------------------------------------------------------------------
(* The engine, as called by the harness.  FakeExecutor is a dependency, not *)
(* part of this crate: a call returns its answer in the output (Success,    *)
(* kept with an error, or discarded) and the answer is an input of the      *)
(* action.  A kept transaction pays gas_used * gas_unit_price out of the    *)
(* sender's primary fungible store; a discarded one changes nothing.        *)

\* executor.new_account_at(addr): the account data is (re)written; rb is what
\* a later typed read of the AccountResource finds
\* the account is written anew: funded, at on-ledger sequence number 0
EngineNewAccountAt(ex, addr, rb) ==
    [ex EXCEPT !.acct[addr] = rb, !.store[addr] = InitialBalance, !.seq[addr] = 0]

Fee(txn, gas) == gas * txn.gas_unit_price

\* what executor.execute_and_apply(txn) may answer in state ex
EngineCan(ex, txn, status, gas) ==
    IF status = "Discard"
    THEN gas = 0
    ELSE /\ gas \in GasUsedSet
         /\ gas <= txn.max_gas_amount
         /\ ex.store[txn.sender] # NoStore
         /\ IF status = "Success" /\ txn.payload.kind = "transfer"
            THEN ex.store[txn.sender] >= txn.payload.amount + Fee(txn, gas)
            ELSE ex.store[txn.sender] >= Fee(txn, gas)

Credit(store, b, x) ==
    [store EXCEPT ![b] = (IF @ = NoStore THEN 0 ELSE @) + x]

\* a kept transaction, successful or not, charges its fee and advances the
\* sender's on-ledger sequence number; a discarded one changes nothing
EngineApply(ex, txn, status, gas) ==
    IF status = "Discard"
    THEN ex
    ELSE LET charged == [ex.store EXCEPT ![txn.sender] = @ - Fee(txn, gas)]
             kept == [ex EXCEPT !.seq[txn.sender] = @ + 1]
         IN  IF status = "Success" /\ txn.payload.kind = "transfer"
             THEN [kept EXCEPT !.store =
                     Credit([charged EXCEPT ![txn.sender] = @ - txn.payload.amount],
                            txn.payload.to, txn.payload.amount)]
             ELSE [kept EXCEPT !.store = charged]

----------------------------------------------------------------------------
(* Construction *)

\* from_mainnet_latest, over a snapshot whose raw state holds the keys in some
\* member of Raws; how accounts came to be and what was discarded is followed
\* from origin "none" and left alone from Unfollowed
Construct(Raws, origin) ==
    \E li \in LedgerInfos, raw \in Raws :
        /\ ledger_info = li
        /\ executor = [block_time |-> li.timestamp_usecs \div UsecsPerSec,
                       acct |-> [a \in Addr |-> "none"],
                       store |-> [a \in Addr |-> NoStore],
                       seq |-> [a \in Addr |-> 0],
                       raw |-> raw]
        /\ sequence_numbers = <<>>
        /\ chain_id = li.chain_id
        /\ submitted = [a \in Addr |-> 0]
        /\ since = [a \in Addr |-> 0]
        /\ prev = [a \in Addr |-> -1]
        /\ discarded = [a \in Addr |-> 0]
        /\ created = [a \in Addr |-> origin]
        /\ last = Last("new", "-", "-", "stdout", NoTxn, 0, FALSE, NoAux)

InitWith(Raws) == Construct(Raws, Unfollowed)

Init == InitWith({{"k1"}})

InitFollowed == Construct({{"k1"}}, "none")

\* the origin c gets at a when an account is made there
Mark(c, a, v) == IF c[a] = Unfollowed THEN c ELSE [c EXCEPT ![a] = v]

Alive == last.ret # "panic"

----------------------------------------------------------------------------
(* Account Registry *)

\* Account::new(): a freshly generated address, never seen by the harness
Fresh(a) == a \notin DOMAIN sequence_numbers /\ executor.acct[a] = "none"

NewAccountLedger_SeedsOne(sn, ex, addr) == Insert(sn, addr, 1)

NewAccountLedger_Clears(sn, ex, addr) == Insert(<<>>, addr, 0)

NewAccountLedger(sn, ex, addr) == Insert(sn, addr, 0)

NewAccountDiag(ex, addr) ==
    IF ReadAccountResourceAtAddress(ex, addr) THEN "stdout" ELSE "none"

NewAccount(a, rb) ==
    /\ Alive
    /\ Fresh(a)
    /\ executor' = EngineNewAccountAt(executor, a, rb)
    /\ sequence_numbers' = NewAccountLedger(sequence_numbers, executor', a)
    /\ since' = [since EXCEPT ![a] = 0]
    /\ last' = Last("new_account", a, "account", NewAccountDiag(executor', a),
                    NoTxn, 0, FALSE, NoAux)
    /\ created' = Mark(created, a, "new_account")
    /\ UNCHANGED <<chain_id, ledger_info, submitted, prev, discarded>>

NewAccountAtLedger_Always(sn, ex, addr) == Insert(sn, addr, 0)

NewAccountAtLedger(sn, ex, addr) ==
    IF ReadAccountResourceAtAddress(ex, addr) THEN Insert(sn, addr, 0) ELSE sn

NewAccountAtDiag(ex, addr) ==
    IF ReadAccountResourceAtAddress(ex, addr) THEN "none" ELSE "stderr"

NewAccountAt(addr, rb) ==
    /\ Alive
    /\ executor' = EngineNewAccountAt(executor, addr, rb)
    /\ sequence_numbers' = NewAccountAtLedger(sequence_numbers, executor', addr)
    /\ since' = IF ReadAccountResourceAtAddress(executor', addr)
                THEN [since EXCEPT ![addr] = 0]
                ELSE since
    /\ last' = Last("new_account_at", addr, "account", NewAccountAtDiag(executor', addr),
                    NoTxn, 0, FALSE, NoAux)
    /\ created' = Mark(created, addr, IF created[addr] \in {"new_account", "both"}
                                       THEN "both" ELSE "new_account_at")
    /\ UNCHANGED <<chain_id, ledger_info, submitted, prev, discarded>>

----------------------------------------------------------------------------
(* Transaction Builder & Submitter *)

SequenceNumberFor_Zero(sn, a) == 0

SequenceNumberFor_DefaultOne(sn, a) == IF a \in DOMAIN sn THEN sn[a] ELSE 1

SequenceNumberFor(sn, a) == GetOr0(sn, a)

BumpSequence_Stale(sn, a) == Insert(sn, a, SequenceNumberFor(sn, a))

BumpSequence(sn, a) == Insert(sn, a, SequenceNumberFor(sn, a) + 1)

Ttl(wall) == wall + TtlSecs

BuildTransaction_NoPrice(a, payload, seq, ttl, cid) ==
    [sender |-> a, payload |-> payload, sequence_number |-> seq,
     max_gas_amount |-> MaxGasAmount, gas_unit_price |-> 0,
     ttl |-> ttl, chain_id |-> cid]

BuildTransaction_TestChain(a, payload, seq, ttl, cid) ==
    [sender |-> a, payload |-> payload, sequence_number |-> seq,
     max_gas_amount |-> MaxGasAmount, gas_unit_price |-> GasUnitPrice,
     ttl |-> ttl, chain_id |-> 4]

BuildTransaction(a, payload, seq, ttl, cid) ==
    [sender |-> a, payload |-> payload, sequence_number |-> seq,
     max_gas_amount |-> MaxGasAmount, gas_unit_price |-> GasUnitPrice,
     ttl |-> ttl, chain_id |-> cid]

RECURSIVE SumOver(_, _)
SumOver(f, S) ==
    IF S = {} THEN 0
    ELSE LET x == CHOOSE y \in S : TRUE IN f[x] + SumOver(f, S \ {x})

Total(f) == SumOver(f, DOMAIN f)

\* run_transaction_with_output, entered through operation op
Submit(op, a, payload, wall, status, gas) ==
    LET seq == SequenceNumberFor(sequence_numbers, a)
        txn == BuildTransaction(a, payload, seq, Ttl(wall), chain_id)
    IN  /\ Total(submitted) < MaxSubmits
        /\ EngineCan(executor, txn, status, gas)
        /\ sequence_numbers' = BumpSequence(sequence_numbers, a)
        /\ executor' = EngineApply(executor, txn, status, gas)
        /\ submitted' = [submitted EXCEPT ![a] = @ + 1]
        /\ since' = [since EXCEPT ![a] = @ + 1]
        /\ prev' = [prev EXCEPT ![a] = seq]
        /\ discarded' = IF status = "Discard" /\ created[a] # Unfollowed
                        THEN [discarded EXCEPT ![a] = @ + 1]
                        ELSE discarded
        /\ last' = Last(op, a, status, "none", txn, gas, FALSE, NoAux)
        /\ UNCHANGED <<chain_id, ledger_info, created>>

RunTransactionWithOutput(a, payload, wall, status, gas) ==
    /\ Alive
    /\ Submit("run_transaction_with_output", a, payload, wall, status, gas)

RunTransaction(a, payload, wall, status, gas) ==
    /\ Alive
    /\ Submit("run_transaction", a, payload, wall, status, gas)

\* names_ok: Identifier::new accepts the module and the function name; the
\* unwrap of a rejected name panics before anything is submitted
RunEntryFunction(a, names_ok, payload, wall, status, gas) ==
    /\ Alive
    /\ IF names_ok
       THEN /\ payload \in EntryPayloads
            /\ Submit("run_entry_function", a, payload, wall, status, gas)
       ELSE /\ last' = Last("run_entry_function", a, "panic", "stderr", NoTxn, 0, FALSE,
                            NoAux)
            /\ UNCHANGED <<executor, sequence_numbers, chain_id, ledger_info,
                           submitted, since, prev, discarded, created>>

\* the counter is taken before the package is built
PublishPackage_BumpsFirst(a, built, wall, status, gas) ==
    /\ Alive
    /\ IF built
       THEN Submit("publish_package", a, PublishPayload, wall, status, gas)
       ELSE /\ sequence_numbers' = BumpSequence(sequence_numbers, a)
            /\ last' = Last("publish_package", a, KeepMiscAborted, "stderr", NoTxn, 0,
                            FALSE, <<"build_failed", "-", "-">>)
            /\ UNCHANGED <<executor, chain_id, ledger_info, submitted, since, prev, discarded, created>>

\* built: BuiltPackage::build succeeded
PublishPackage(a, built, wall, status, gas) ==
    /\ Alive
    /\ IF built
       THEN Submit("publish_package", a, PublishPayload, wall, status, gas)
       ELSE /\ last' = Last("publish_package", a, KeepMiscAborted, "stderr", NoTxn, 0,
                            FALSE, <<"build_failed", "-", "-">>)
            /\ UNCHANGED <<executor, sequence_numbers, chain_id, ledger_info,
                           submitted, since, prev, discarded, created>>

----------------------------------------------------------------------------
(* Readers and the view-function invoker *)

ExistsResourceCall(k1, path, k2) ==
    /\ Alive
    /\ last' = Last("exists_resource", "-", "bool", "none", NoTxn, 0,
                    ExistsResource(executor, k1, path, k2), <<k1, path, k2>>)
    /\ UNCHANGED <<executor, sequence_numbers, chain_id, ledger_info, submitted, since, prev, discarded, created>>

ReadResourceCall(addr) ==
    /\ Alive
    /\ last' = LastRead("read_resource", addr, 0, ReadAccountResourceAtAddress(executor, addr))
    /\ UNCHANGED rest

VerifyAccountExistsCall(addr) ==
    /\ Alive
    /\ last' = LastRead("verify_account_exists", addr, 0, VerifyAccountExists(executor, addr))
    /\ UNCHANGED rest

ReadStateValueCall_Caches(key) ==
    /\ Alive
    /\ last' = [LastRead("read_state_value", "-", 0, ReadStateValue(executor, key))
                 EXCEPT !.aux = <<key, "-", "-">>]
    /\ executor' = [executor EXCEPT !.raw = @ \cup {key}]
    /\ UNCHANGED <<sequence_numbers, chain_id, ledger_info, submitted, since, prev, discarded, created>>

ReadStateValueCall(key) ==
    /\ Alive
    /\ last' = [LastRead("read_state_value", "-", 0, ReadStateValue(executor, key))
                 EXCEPT !.aux = <<key, "-", "-">>]
    /\ UNCHANGED rest

ReadAptosBalanceCall(addr) ==
    /\ Alive
    /\ last' = LastRead("read_aptos_balance", addr, ReadAptosBalance(executor, addr), FALSE)
    /\ UNCHANGED rest

ReadAptFungibleStoreResourceCall(addr) ==
    /\ Alive
    /\ last' = LastRead("read_apt_fungible_store_resource", addr,
                        ReadAptFungibleStoreResource(executor, addr), FALSE)
    /\ UNCHANGED rest

GetAptBalanceCall(addr) ==
    /\ Alive
    /\ last' = LastRead("get_apt_balance", addr, GetAptBalance(executor, addr), FALSE)
    /\ UNCHANGED rest

HasAptBalanceCall(addr) ==
    /\ Alive
    /\ last' = LastRead("has_apt_balance", addr, 0, HasAptBalance(executor, addr))
    /\ UNCHANGED rest

\* what execute_view_function hands back for an engine output
ViewReturn(parsed, output) ==
    IF ~parsed THEN "Err_parse" ELSE IF ~output.ok THEN "Err_exec" ELSE "Ok"

\* the record of a view call: flag is the parse outcome, aux whether the engine's
\* read-only path ran and what it reported, arg its values, out the values returned
ViewRecord(parsed, output, out) ==
    [Last("execute_view_function", "-", ViewReturn(parsed, output),
          "none", NoTxn, 0, parsed,
          <<IF parsed THEN "called" ELSE "-",
            IF ~parsed THEN "-" ELSE IF output.ok THEN "Ok" ELSE Err,
            "-">>)
     EXCEPT !.arg = IF parsed /\ output.ok THEN output.values ELSE <<>>,
            !.out = out]

ExecuteViewFunction_Submits(parsed, output) ==
    /\ Alive
    /\ last' = ViewRecord(parsed, output,
                          IF parsed /\ output.ok THEN output.values ELSE <<>>)
    /\ sequence_numbers' = IF parsed /\ DOMAIN sequence_numbers # {}
                           THEN BumpSequence(sequence_numbers,
                                             CHOOSE a \in DOMAIN sequence_numbers : TRUE)
                           ELSE sequence_numbers
    /\ UNCHANGED <<executor, chain_id, ledger_info, submitted, since, prev, discarded, created>>

ExecuteViewFunction_FirstOnly(parsed, output) ==
    /\ Alive
    /\ last' = ViewRecord(parsed, output,
                          IF parsed /\ output.ok /\ output.values # <<>>
                          THEN <<output.values[1]>> ELSE <<>>)
    /\ UNCHANGED rest

\* parsed: the MemberId parse succeeded; output: what the engine's read-only
\* call gives back (output.values is a Result)
ExecuteViewFunction(parsed, output) ==
    /\ Alive
    /\ last' = ViewRecord(parsed, output,
                          IF parsed /\ output.ok THEN output.values ELSE <<>>)
    /\ UNCHANGED rest

----------------------------------------------------------------------------

AccountOps ==
    \/ \E a \in Addr, rb \in {"ok", "bad"} : NewAccount(a, rb)
    \/ \E a \in Addr, rb \in {"ok", "bad"} : NewAccountAt(a, rb)

\* run_entry_function, with payloads drawn from P and wall clocks from W
EntryOps(P, W) ==
    \E a \in Addr, ok \in BOOLEAN :
       \E p \in IF ok THEN P ELSE {NoPayload},
          w \in IF ok THEN W ELSE {0}, s \in IF ok THEN EngineStatus ELSE {"-"},
          g \in IF ok THEN GasUsedSet \cup {0} ELSE {0} :
          RunEntryFunction(a, ok, p, w, s, g)

\* the submitting operations, with payloads drawn from P and wall clocks from W
SubmitOps(P, W) ==
    \/ \E a \in Addr, p \in P, w \in W, s \in EngineStatus, g \in GasUsedSet \cup {0} :
          RunTransactionWithOutput(a, p, w, s, g)
    \/ \E a \in Addr, p \in P, w \in W, s \in EngineStatus, g \in GasUsedSet \cup {0} :
          RunTransaction(a, p, w, s, g)
    \/ EntryOps(P, W)
    \/ \E a \in Addr, ok \in BOOLEAN :
       \E w \in IF ok THEN W ELSE {0}, s \in IF ok THEN EngineStatus ELSE {"-"},
          g \in IF ok THEN GasUsedSet \cup {0} ELSE {0} :
          PublishPackage(a, ok, w, s, g)

\* the key derivations exists_resource may meet: <<k1, path, k2>>
Derivations ==
    { <<k1, Err, "-">> : k1 \in Keys \cup {Err} }
    \cup { <<k1, "ok", k2>> : k1 \in Keys \cup {Err}, k2 \in Keys \cup {Err} }

ReadOps(D) ==
    \E d \in D : ExistsResourceCall(d[1], d[2], d[3])

ViewValues == {<<>>, <<"b1">>, <<"b1", "b2">>, <<"b2", "b1">>}

ViewOutputs ==
    {[ok |-> FALSE, values |-> <<>>]} \cup {[ok |-> TRUE, values |-> v] : v \in ViewValues}

MainViewOutputs == {o \in ViewOutputs : Len(o.values) # 2}

ViewOpsOver(O) ==
    \E parsed \in BOOLEAN, output \in O : ExecuteViewFunction(parsed, output)

ViewOps == ViewOpsOver(MainViewOutputs)

MainPayloads == { p \in Payloads : p.kind = "entry" }
MainDerivations == { <<"k1", Err, "-">>, <<Err, "ok", "k2">> }

Next ==
    \/ AccountOps
    \/ SubmitOps(MainPayloads, {900})
    \/ ReadOps(MainDerivations)
    \/ ViewOps

Spec == Init /\ [][Next]_vars

TypedReadOps ==
    \/ \E a \in Addr : ReadResourceCall(a)
    \/ \E a \in Addr : VerifyAccountExistsCall(a)
    \/ \E k \in Keys : ReadStateValueCall(k)

BalanceReadOps ==
    \/ \E a \in Addr : ReadAptosBalanceCall(a)
    \/ \E a \in Addr : ReadAptFungibleStoreResourceCall(a)
    \/ \E a \in Addr : GetAptBalanceCall(a)
    \/ \E a \in Addr : HasAptBalanceCall(a)

\* the readers over every key derivation and every snapshot content
NextReads ==
    \/ AccountOps
    \/ ReadOps(Derivations)
    \/ TypedReadOps
    \/ BalanceReadOps

SpecReads == InitWith(SUBSET Keys) /\ [][NextReads]_vars

\* submissions under every wall clock
NextClock ==
    \/ AccountOps
    \/ SubmitOps(MainPayloads, WallClocks)

SpecClock == Init /\ [][NextClock]_vars

\* submissions, with the origin of every account and its discards followed
NextSeq ==
    \/ AccountOps
    \/ \E a \in Addr, p \in MainPayloads, s \in EngineStatus, g \in GasUsedSet \cup {0} :
          RunTransaction(a, p, 900, s, g)

SpecSeq == InitFollowed /\ [][NextSeq]_vars

\* transfers between the accounts
TransferPayloads == { p \in Payloads : p.kind = "transfer" }

NextTransfer ==
    \/ AccountOps
    \/ EntryOps(TransferPayloads, {900})

SpecTransfer == Init /\ [][NextTransfer]_vars

\* view calls over every engine output
NextView ==
    \/ AccountOps
    \/ ViewOpsOver(ViewOutputs)

SpecView == Init /\ [][NextView]_vars

\* the balance readers between transfers
NextBalance ==
    \/ AccountOps
    \/ EntryOps(TransferPayloads, {900})
    \/ BalanceReadOps

SpecBalance == Init /\ [][NextBalance]_vars

----------------------------------------------------------------------------
(* Properties *)

SubmittingOps ==
    {"run_transaction", "run_transaction_with_output", "run_entry_function",
     "publish_package"}

\* C1 (as stated): for every address the Sequence Ledger counter equals the
\* number of transactions submitted for it since harness start.
C1_Original ==
    \A a \in Addr : GetOr0(sequence_numbers, a) = submitted[a]

\* C1 (amended): for every address the Sequence Ledger counter equals the
\* number of transactions submitted for it since the last account creation on
\* that address whose read-back succeeded (since harness start if none),
\* whatever the status of those submissions.
C1_CounterCountsSubmissionsSinceReset ==
    \A a \in Addr : GetOr0(sequence_numbers, a) = since[a]

C1_Witness ==
    \E a \in Addr :
        /\ since[a] = 2
        /\ last.op \in SubmittingOps /\ last.addr = a
        /\ last.ret = "Discard"

\* C2 (as stated): the counters attached to the successive transactions of one
\* address are strictly increasing, also across new_account_at on that address.
C2_Original ==
    [][\A a \in Addr :
         (submitted'[a] = submitted[a] + 1 /\ submitted[a] > 0)
            => prev'[a] > prev[a]]_vars

\* C2 (amended): the counter attached to a transaction of an address is one
\* more than the counter of the address's previous transaction unless a
\* new_account_at with a successful read-back came between them, in which
\* case it is 0 again.
C2_IncreasingBetweenResets ==
    [][\A a \in Addr :
         submitted'[a] = submitted[a] + 1
            => IF since[a] > 0 THEN prev'[a] = prev[a] + 1 ELSE prev'[a] = 0]_vars

C2_Witness ==
    \E a \in Addr : since[a] >= 2 /\ submitted[a] > since[a] /\ prev[a] = 1

\* C3 (as stated): every call of a submitting operation returns a transaction
\* status, never a harness-level abort, and a submission advances the sender's
\* counter by exactly 1.
C3_Original ==
    [][last'.op \in SubmittingOps
         => /\ last'.ret \in TransactionStatus
            /\ last'.txn # NoTxn
                 => sequence_numbers' =
                      Insert(sequence_numbers, last'.addr,
                             GetOr0(sequence_numbers, last'.addr) + 1)]_vars

\* C4: publish_package with a failed build returns Keep(MiscellaneousError),
\* hands nothing to the engine and leaves overlay and Sequence Ledger as they
\* were; with a successful build it makes exactly one submission.
C4_PublishPackage ==
    [][last'.op = "publish_package"
         => IF last'.aux[1] = "build_failed"
            THEN /\ last'.ret = KeepMiscAborted
                 /\ last'.txn = NoTxn
                 /\ UNCHANGED <<executor, sequence_numbers, submitted>>
            ELSE /\ last'.txn.payload.kind = "publish"
                 /\ last'.ret \in EngineStatus
                 /\ submitted' = [submitted EXCEPT ![last'.addr] = @ + 1]
                 /\ sequence_numbers' =
                      Insert(sequence_numbers, last'.addr,
                             GetOr0(sequence_numbers, last'.addr) + 1)]_vars

C4_Witness ==
    /\ last.op = "publish_package"
    /\ last.aux[1] = "build_failed"
    /\ GetOr0(sequence_numbers, last.addr) = 2

\* C5: new_account_at always returns the account; the Sequence Ledger is left
\* as it was when the read-back fails, and only the entry of addr is set to 0
\* when it succeeds.
C5_NewAccountAtLedger ==
    [][last'.op = "new_account_at"
         => /\ last'.ret = "account"
            /\ IF ReadAccountResourceAtAddress(executor', last'.addr)
               THEN sequence_numbers' = Insert(sequence_numbers, last'.addr, 0)
               ELSE sequence_numbers' = sequence_numbers]_vars

C5_Witness ==
    /\ last.op = "new_account_at"
    /\ ~ReadAccountResourceAtAddress(executor, last.addr)
    /\ GetOr0(sequence_numbers, last.addr) = 2

\* C6 (as stated): new_account sets the counter of the fresh address to 0,
\* returns the account, and surfaces a diagnostic whenever the read-back fails.
C6_Original ==
    last.op = "new_account"
       => /\ last.addr \in DOMAIN sequence_numbers
          /\ sequence_numbers[last.addr] = 0
          /\ last.ret = "account"
          /\ ~ReadAccountResourceAtAddress(executor, last.addr) => last.diag # "none"

\* C7: a view call, whatever it returns, leaves the overlay and every Sequence
\* Ledger entry as they were, so what a later submission attaches and may get
\* back is the same with or without the call.
C7_ViewIsReadOnly ==
    [][last'.op = "execute_view_function"
         => UNCHANGED <<executor, sequence_numbers, chain_id>>]_vars

C7_Witness ==
    /\ last.op = "execute_view_function"
    /\ last.ret = "Err_exec"
    /\ \E a \in Addr : GetOr0(sequence_numbers, a) = 2

\* C8 (as stated): the expiry attached to every submitted transaction is
\* strictly greater than the executor's virtual clock.
C8_Original ==
    last.txn # NoTxn => last.txn.ttl > executor.block_time

\* C9: exists_resource is true exactly when one of the two key derivations
\* both succeeds and resolves a value.
C9_ExistsEitherScheme ==
    last.op = "exists_resource"
       => (last.flag <=>
             \/ last.aux[1] # Err /\ last.aux[1] \in executor.raw
             \/ last.aux[2] # Err /\ last.aux[3] # Err /\ last.aux[3] \in executor.raw)

C9_Witness ==
    /\ last.op = "exists_resource"
    /\ last.aux[1] \in Keys /\ last.aux[1] \notin executor.raw
    /\ last.flag

\* a transfer of amount X from A to a different account B has just succeeded
TransferSucceeded(l) ==
    /\ l.op \in SubmittingOps
    /\ l.txn.payload.kind = "transfer"
    /\ l.ret = "Success"
    /\ l.txn.payload.to # l.addr

\* C10 (as stated): after a successful transfer of X from A to B, A's
\* read_aptos_balance is exactly X lower and B's exactly X higher.
C10_Original ==
    [][TransferSucceeded(last')
         => /\ ReadAptosBalance(executor', last'.addr)
                 = ReadAptosBalance(executor, last'.addr) - last'.txn.payload.amount
            /\ ReadAptosBalance(executor', last'.txn.payload.to)
                 = ReadAptosBalance(executor, last'.txn.payload.to)
                     + last'.txn.payload.amount]_vars

\* C10 (amended): after a successful transfer of X from A to B, B's
\* read_aptos_balance is exactly X higher and A's is lower by X plus the gas
\* fee of the transaction, gas used (at least 1, at most 2,000,000) times the
\* attached unit price of 100.
C10_TransferChargesGas ==
    [][TransferSucceeded(last')
         => /\ last'.gas_used >= 1 /\ last'.gas_used <= 2000000
            /\ ReadAptosBalance(executor', last'.addr)
                 = ReadAptosBalance(executor, last'.addr)
                     - last'.txn.payload.amount - last'.gas_used * 100
            /\ ReadAptosBalance(executor', last'.txn.payload.to)
                 = ReadAptosBalance(executor, last'.txn.payload.to)
                     + last'.txn.payload.amount]_vars

C10_Witness ==
    /\ TransferSucceeded(last)
    /\ ReadAptosBalance(executor, last.txn.payload.to) = InitialBalance + 300
    /\ ReadAptosBalance(executor, last.addr) < InitialBalance - 300

C18_GetAndHasAptBalance ==
    /\ last.op = "get_apt_balance"
          => last.val = IF executor.store[last.addr] = NoStore
                           \/ executor.store[last.addr] = 0
                        THEN NoStore
                        ELSE executor.store[last.addr]
    /\ last.op = "has_apt_balance"
          => (last.flag <=> GetAptBalance(executor, last.addr) # NoStore)

C18_Witness ==
    /\ last.op = "get_apt_balance"
    /\ executor.store[last.addr] = 0
    /\ last.val = NoStore

ReaderNames ==
    {"read_resource", "exists_resource", "read_aptos_balance", "read_state_value",
     "verify_account_exists", "read_apt_fungible_store_resource",
     "get_apt_balance", "has_apt_balance"}

\* C12: a reader changes neither the overlay nor the Sequence Ledger, and a
\* reader called again with the same arguments, nothing submitted or created
\* in between, returns the same value.
C12_ReadersArePure ==
    [][last'.op \in ReaderNames
         => /\ executor' = executor
            /\ sequence_numbers' = sequence_numbers
            /\ (last.op = last'.op /\ last.addr = last'.addr /\ last.aux = last'.aux)
                  => (last'.val = last.val /\ last'.flag = last.flag)]_vars

C12_Witness ==
    /\ last.op = "read_state_value"
    /\ last.flag
    /\ \E a \in DOMAIN sequence_numbers : executor.store[a] = InitialBalance

\* C13: the chain id recorded at construction never changes, and every
\* transaction handed to the engine carries it with max gas 2,000,000 and gas
\* unit price 100, whoever the caller and whatever the payload.
C13_ChainIdAndFeePolicy ==
    /\ chain_id = ledger_info.chain_id
    /\ last.txn # NoTxn
          => /\ last.txn.chain_id = ledger_info.chain_id
             /\ last.txn.max_gas_amount = 2000000
             /\ last.txn.gas_unit_price = 100

C13_Witness ==
    /\ last.op = "publish_package"
    /\ last.txn # NoTxn
    /\ last.txn.chain_id = 2
    /\ submitted[last.addr] > 1

\* C14: a submission for A attaches the value stored for A just before the
\* call, 0 when A has no entry, and leaves the stored value one above the
\* attached one; for a never-registered address it attaches 0, leaves 1 and
\* returns the engine's status.
C14_AttachThenAdvance ==
    [][(last'.op \in SubmittingOps /\ last'.txn # NoTxn)
         => /\ last'.txn.sequence_number =
                  IF last'.addr \in DOMAIN sequence_numbers
                  THEN sequence_numbers[last'.addr] ELSE 0
            /\ last'.addr \in DOMAIN sequence_numbers'
            /\ sequence_numbers'[last'.addr] = last'.txn.sequence_number + 1
            /\ last'.ret \in EngineStatus]_vars

C14_Witness ==
    /\ last.op \in SubmittingOps
    /\ last.txn # NoTxn
    /\ executor.acct[last.addr] = "none"
    /\ last.txn.sequence_number = 0
    /\ sequence_numbers[last.addr] = 1
    /\ submitted[last.addr] = 1

\* C15: execute_view_function returns an error exactly when the function id
\* does not parse or the engine reports a failure, otherwise the engine's
\* values as they are; when the parse fails the engine is not called.
C15_ViewResult ==
    last.op = "execute_view_function"
       => /\ (last.ret # "Ok") <=> (~last.flag \/ last.aux[2] = Err)
          /\ last.ret = "Ok" => last.out = last.arg
          /\ ~last.flag => (last.aux[1] = "-" /\ last.ret = "Err_parse")

C15_Witness ==
    /\ last.op = "execute_view_function"
    /\ last.ret = "Ok"
    /\ Len(last.out) = 2
    /\ last.out[1] # last.out[2]

\* C17: a submission or an account creation for A leaves every other address's
\* Sequence Ledger entry, present or absent, as it was.
C17_OtherEntriesUntouched ==
    [][last'.op \in SubmittingOps \cup {"new_account", "new_account_at"}
         => \A b \in Addr \ {last'.addr} :
               /\ (b \in DOMAIN sequence_numbers') <=> (b \in DOMAIN sequence_numbers)
               /\ b \in DOMAIN sequence_numbers
                     => sequence_numbers'[b] = sequence_numbers[b]]_vars

C17_Witness ==
    /\ last.op = "new_account"
    /\ \E b \in DOMAIN sequence_numbers : b # last.addr /\ sequence_numbers[b] = 2

\* C16 (as stated): with the engine advancing an account's on-ledger sequence
\* number by 1 for every kept transaction and not for a discarded one, for every
\* account new_account created the harness counter equals the engine's sequence
\* number plus the number of its discarded submissions, in every reachable state.
C16_Original ==
    \A a \in Addr :
        created[a] \in {"new_account", "both"}
           => GetOr0(sequence_numbers, a) = executor.seq[a] + discarded[a]

\* C16: the same for an account new_account created and new_account_at has not
\* been called on since; there the counter a next submission attaches is the
\* sequence number the engine expects exactly while nothing was discarded.
C16_CounterIsSeqPlusDiscarded ==
    \A a \in Addr :
        created[a] = "new_account"
           => /\ a \in DOMAIN sequence_numbers
              /\ sequence_numbers[a] = executor.seq[a] + discarded[a]
              /\ (SequenceNumberFor(sequence_numbers, a) = executor.seq[a])
                    <=> (discarded[a] = 0)

C16_Witness ==
    \E a \in Addr :
        /\ created[a] = "new_account"
        /\ discarded[a] = 1
        /\ executor.seq[a] = 2
        /\ sequence_numbers[a] = 3

====
